---- MODULE Spec2Model ----
(***************************************************************************)
(* A state-machine model of the AutoDashAI front end: the file-conversion  *)
(* page (FileToTableConverter), the dashboard with its chat panel          *)
(* (Dashboard, ChatInterface), the data-cleaning page (DataCleaner), the   *)
(* standalone insight page (InsightGeneration) and the login and signup    *)
(* forms.                                                                  *)
(*                                                                         *)
(* Encoding.  A JavaScript string is a sequence of string tokens, so that  *)
(* concatenation is \o and trimming, slicing and the extension regex work  *)
(* on it; the empty string is <<>>.  A value that may be null or undefined *)
(* is an option: None, or Some(v).  Payloads whose content no handler      *)
(* reads (chart lists, KPI lists, insight lists, analyses) are tokens.     *)
(*                                                                         *)
(* Scheduling.  The UI thread runs one handler segment at a time and React *)
(* re-renders before the next discrete event, so that a handler reads the  *)
(* state of the last render.  An async handler is two actions: the segment *)
(* up to its fetch, which leaves a request in net, and the continuation    *)
(* that runs when the call settles.  The continuation reads only what the  *)
(* handler captured when it started (kept in the request) and the outcome  *)
(* of the call; the awaits inside it (res.json(), res.blob(), ...) change  *)
(* no state, so the continuation is one step.                              *)
(***************************************************************************)
EXTENDS Integers, Sequences, FiniteSets, TLC

VARIABLES
  page,         \* the mounted page component
  nav,          \* the path the page navigated to, None while it is mounted
  net,          \* the backend and library calls in flight, in issue order
  conv,         \* FileToTableConverter: files, results, loading, error
  view,         \* FileToTableConverter: the result cards of the last render
  session_id,   \* Dashboard: the session id of location.state, None when missing
  dash,         \* Dashboard: charts, kpis, messages, loading, insights, showInsights, loadingInsights
  input,        \* ChatInterface: the text in the input box
  cleaner,      \* DataCleaner: file, analysis, loading, error
  insgen,       \* InsightGeneration: file, preview, loading, insights, error
  auth,         \* Login and Signup: error
  ev,           \* history: the handler segment that ran last, with its input
  escaped,      \* history: some handler ended with a rejection nobody caught
  resultsFor,   \* history: the file list of the request that filled conv.results
  clearedSince, \* history: clearFiles ran and no extraction started since
  doc           \* the document: the object URLs alive

vars == <<page, nav, net, conv, view, session_id, dash, input, cleaner, insgen, auth,
          ev, escaped, resultsFor, clearedSince, doc>>

\* The state of the pages other than the one an action belongs to
notConv == <<session_id, dash, input, cleaner, insgen, auth>>
notDash == <<doc, conv, view, resultsFor, clearedSince, cleaner, insgen, auth>>
notCleaner == <<conv, view, resultsFor, clearedSince, session_id, dash, input, insgen, auth>>
notInsgen == <<doc, conv, view, resultsFor, clearedSince, session_id, dash, input, cleaner, auth>>
notAuth == <<doc, conv, view, resultsFor, clearedSince, session_id, dash, input, cleaner, insgen>>

---------------------------------------------------------------------------
(* Bounds of the model *)

MaxInFlight == 2
MaxTurns == 2

---------------------------------------------------------------------------
(* Options and strings *)

None == <<>>
Some(v) == <<v>>
IsSome(o) == o # <<>>
Get(o) == o[1]

\* JavaScript's a || b on optional strings: a when it is a non-empty string
OrElse(a, b) == IF IsSome(a) /\ Get(a) # <<>> THEN Get(a) ELSE b

RemoveAt(s, i) == SubSeq(s, 1, i - 1) \o SubSeq(s, i + 1, Len(s))

---------------------------------------------------------------------------
(* The fetch platform: outcomes of a call and reading a response body *)

\* Bodies of a non-2xx response: a JSON object with a detail, a JSON object
\* without one, the JSON value null, and text that is not JSON.
BodyDetail == [json |-> "obj",  detail |-> Some(<<"model timeout">>), text |-> <<>>]
BodyNoDetail == [json |-> "obj",  detail |-> None, text |-> <<>>]
BodyNull == [json |-> "null", detail |-> None, text |-> <<>>]
BodyText == [json |-> "bad",  detail |-> None, text |-> <<"Internal Server Error">>]

HttpError(s, b) == [kind |-> "http", status |-> s, body |-> b, data |-> None]

NetworkFailure == [kind |-> "neterr", status |-> 0, body |-> [json |-> "bad", detail |-> None, text |-> <<>>], data |-> None]
HttpErrors ==
  { HttpError(500, BodyDetail), HttpError(500, BodyNoDetail), HttpError(404, BodyNoDetail),
    HttpError(500, BodyNull), HttpError(502, BodyText) }
\* A 2xx response whose body is not JSON
Unparseable == [kind |-> "http", status |-> 200, body |-> [json |-> "bad", detail |-> None, text |-> <<"<html>">>], data |-> None]
Ok200(d) == [kind |-> "http", status |-> 200, body |-> [json |-> "obj", detail |-> None, text |-> <<>>], data |-> Some(d)]

ResOk(o) == o.status >= 200 /\ o.status <= 299

FetchFailedMsg == <<"Failed to fetch">>
SyntaxErrorMsg == <<"Unexpected token in JSON">>
NullDerefMsg == <<"Cannot read properties of null">>
BodyUsedMsg == <<"body stream already read">>

\* res.json(): consumes the body; rejects with a SyntaxError when the body
\* is not JSON.
ResponseJson(body) ==
  IF body.json = "bad"
    THEN [threw |-> TRUE, msg |-> SyntaxErrorMsg, bodyUsed |-> TRUE]
    ELSE [threw |-> FALSE, msg |-> <<>>, bodyUsed |-> TRUE]

\* res.text(): rejects with a TypeError when the body was consumed before.
ResponseText(body, bodyUsed) ==
  IF bodyUsed
    THEN [threw |-> TRUE, msg |-> BodyUsedMsg, text |-> <<>>]
    ELSE [threw |-> FALSE, msg |-> <<>>, text |-> body.text]

---------------------------------------------------------------------------
(* FileToTableConverter *)

FileA == <<"a", ".", "c">>
FileB == <<"b">>
\* The file lists a picker change or a drop delivers
FileLists == { <<>>, <<FileA>>, <<FileB, FileA>> }

\* Rows of a table.  A row is a JavaScript object, held as the sequence of
\* its <<key, value>> properties in the order Object.keys lists them; a
\* value is a string, or None for null and undefined.
Rows1 == << << <<"a", Some("1")>>, <<"b", None>> >> >>
Rows2 == << << <<"a", Some("1")>>, <<"b", Some("2")>> >>, << <<"b", Some("3")>>, <<"c", Some("4")>> >> >>
RowsFull == << << <<"a", Some("1")>>, <<"b", None>> >>, << <<"a", Some("5")>>, <<"b", Some("6")>> >> >>

FRStructured == [success |-> TRUE, has_structured_data |-> TRUE, has_text_content |-> FALSE,
                 error |-> None, preview |-> Some(Rows1), dataframe |-> None]
FRFull == [success |-> TRUE, has_structured_data |-> TRUE, has_text_content |-> TRUE,
           error |-> None, preview |-> Some(Rows1), dataframe |-> Some(RowsFull)]
FRNoRows == [success |-> TRUE, has_structured_data |-> TRUE, has_text_content |-> FALSE,
             error |-> None, preview |-> None, dataframe |-> None]
FRFailed == [success |-> FALSE, has_structured_data |-> FALSE, has_text_content |-> FALSE,
             error |-> Some(<<"corrupt file">>), preview |-> None, dataframe |-> None]

\* The four conditions with the text one not excluding structured data
CardSections_TextBesideTable(r) ==
  (IF ~r.success THEN {"error"} ELSE {})
  \cup (IF r.success /\ r.has_structured_data THEN {"structured"} ELSE {})
  \cup (IF r.success /\ r.has_text_content THEN {"text"} ELSE {})
  \cup (IF r.success /\ ~r.has_structured_data /\ ~r.has_text_content THEN {"none"} ELSE {})

\* The section of a result card that is rendered, by the four conditions of
\* the card in the order they are written.
CardSections(r) ==
  (IF ~r.success THEN {"error"} ELSE {})
  \cup (IF r.success /\ r.has_structured_data THEN {"structured"} ELSE {})
  \cup (IF r.success /\ r.has_text_content /\ ~r.has_structured_data THEN {"text"} ELSE {})
  \cup (IF r.success /\ ~r.has_structured_data /\ ~r.has_text_content THEN {"none"} ELSE {})

\* The body sections of a card, in the order the card lists them
SectionOrder == <<"error", "structured", "text", "none">>

\* Object.keys(row) and Object.values(row)
ObjectKeys(row) == [i \in 1..Len(row) |-> row[i][1]]
ObjectValues(row) == [i \in 1..Len(row) |-> row[i][2]]

\* val !== null && val !== undefined ? String(val) : 'N/A'
CellText(val) == IF IsSome(val) THEN Get(val) ELSE "N/A"

\* A table whose header is taken from the last row
PreviewTable_HeaderOfLastRow(preview) ==
  IF IsSome(preview) /\ Len(Get(preview)) > 0
    THEN Some([header |-> ObjectKeys(Get(preview)[Len(Get(preview))]),
               rows |-> [i \in 1..Len(Get(preview)) |->
                          [j \in 1..Len(Get(preview)[i]) |-> CellText(ObjectValues(Get(preview)[i])[j])]]])
    ELSE None

\* result.preview && result.preview.length > 0 && the Data Preview table:
\* the header cells are the keys of the first row, and each body row holds
\* the values of its own row.
PreviewTable(preview) ==
  IF IsSome(preview) /\ Len(Get(preview)) > 0
    THEN Some([header |-> ObjectKeys(Get(preview)[1]),
               rows |-> [i \in 1..Len(Get(preview)) |->
                          [j \in 1..Len(Get(preview)[i]) |-> CellText(ObjectValues(Get(preview)[i])[j])]]])
    ELSE None

\* One result card: its key and title (the filename), the badge next to the
\* title, the body sections rendered, the error text and, of the structured
\* section, whether the counts and the column list are there, the preview
\* table if any and whether the two download buttons are there.
RenderCard(name, r) ==
  [key |-> name,
   badge |-> IF ~r.success THEN "" ELSE IF r.has_structured_data THEN "Data Extracted" ELSE "Text Only",
   body |-> SelectSeq(SectionOrder, LAMBDA sec : sec \in CardSections(r)),
   errorText |-> IF ~r.success THEN r.error ELSE None,
   counts |-> r.success /\ r.has_structured_data,
   table |-> IF r.success /\ r.has_structured_data THEN PreviewTable(r.preview) ELSE None,
   export |-> r.success /\ r.has_structured_data]

\* A rendering in which a failed entry takes over the cards after it
RenderResults_FailureSpreads(results) ==
  [k \in 1..Len(results) |->
     LET failed == { j \in 1..(k - 1) : ~results[j].result.success }
     IN IF failed = {} THEN RenderCard(results[k].name, results[k].result)
        ELSE RenderCard(results[k].name, results[CHOOSE j \in failed : TRUE].result)]

\* Object.entries(results).map(...): the cards, shown when there is an entry
RenderResults(results) ==
  [k \in 1..Len(results) |-> RenderCard(results[k].name, results[k].result)]

ConvInit == [files |-> <<>>, results |-> <<>>, loading |-> FALSE, error |-> None]

\* The record of a handler segment: the handler, its input, whether it set
\* state the view renders, whether it wrote to the console, and what else it
\* did for the user ("none", "download", "save", "navigate", "alert") with
\* the string that went with it (the file name, the path, the alert's text),
\* and the URL and anchor calls it made, in order.
Ev(h, arg, upd, log, eff, out) ==
  [h |-> h, arg |-> arg, upd |-> upd, log |-> log, eff |-> eff, out |-> out, calls |-> <<>>]

\* What handleFileUpload sets: setFiles(Array.from(e.target.files)),
\* setResults({}), setError(null)
Selected(c, fs) == [c EXCEPT !.files = fs, !.results = <<>>, !.error = None]

\* A drop that adds the dropped files to the selected ones
Dropped_Appends(c, fs) == [c EXCEPT !.files = @ \o fs, !.results = <<>>, !.error = None]

\* What handleDrop sets: setFiles(Array.from(e.dataTransfer.files)),
\* setResults({}), setError(null)
Dropped(c, fs) == [c EXCEPT !.files = fs, !.results = <<>>, !.error = None]

\* A clear that leaves the results on display
ClearedConv_KeepResults(c) == [c EXCEPT !.files = <<>>, !.error = None]

\* What clearFiles sets: setFiles([]), setResults({}), setError(null)
ClearedConv(c) == [c EXCEPT !.files = <<>>, !.results = <<>>, !.error = None]

\* handleFileUpload: the picker's change event with the chosen list
HandleFileUploadConv(fs) ==
  /\ page = "conv" /\ nav = None
  /\ conv' = Selected(conv, fs)
  /\ view' = RenderResults(conv'.results)
  /\ ev' = Ev("handleFileUpload", fs, TRUE, FALSE, "none", <<>>)
  /\ UNCHANGED <<page, nav, notConv, net, escaped, resultsFor, clearedSince, doc>>

\* handleDrop: a drop on the drop zone with the dropped list
HandleDrop(fs) ==
  /\ page = "conv" /\ nav = None
  /\ conv' = Dropped(conv, fs)
  /\ view' = RenderResults(conv'.results)
  /\ ev' = Ev("handleDrop", fs, TRUE, FALSE, "none", <<>>)
  /\ UNCHANGED <<page, nav, notConv, net, escaped, resultsFor, clearedSince, doc>>

\* The Clear Files button is rendered while a file is selected.
ClearShown == Len(conv.files) > 0

\* clearFiles
ClearFiles ==
  /\ page = "conv" /\ nav = None
  /\ ClearShown
  /\ conv' = ClearedConv(conv)
  /\ view' = RenderResults(conv'.results)
  /\ clearedSince' = TRUE
  /\ ev' = Ev("clearFiles", <<>>, TRUE, FALSE, "none", <<>>)
  /\ UNCHANGED <<page, nav, notConv, net, escaped, resultsFor, doc>>

\* The disabled attribute without the loading flag
ExtractDisabled_FilesOnly == Len(conv.files) = 0

\* The Extract Data button's disabled attribute
ExtractDisabled == conv.loading \/ Len(conv.files) = 0

InFlight(ep) == { i \in 1..Len(net) : net[i].ep = ep }

\* handleExtract up to its fetch: the request carries the files of the
\* render the click happened in.
HandleExtract ==
  /\ page = "conv" /\ nav = None
  /\ ~ExtractDisabled
  /\ Len(conv.files) # 0
  /\ Len(net) < MaxInFlight
  /\ conv' = [conv EXCEPT !.loading = TRUE, !.error = None]
  /\ view' = RenderResults(conv'.results)
  /\ net' = Append(net, [ep |-> "/process-files", req |-> conv.files])
  /\ clearedSince' = FALSE
  /\ ev' = Ev("handleExtract", conv.files, TRUE, FALSE, "none", <<>>)
  /\ UNCHANGED <<page, nav, notConv, escaped, resultsFor, doc>>

\* The mappings filename -> FileResult a backend may answer a request with:
\* one entry per distinct file name of the request, or no entry at all.
DistinctNames(fs) ==
  LET keep(i) == \A j \in 1..(i - 1) : fs[j] # fs[i]
      F[i \in 0..Len(fs)] ==
        IF i = 0 THEN <<>> ELSE IF keep(i) THEN Append(F[i - 1], fs[i]) ELSE F[i - 1]
  IN F[Len(fs)]

ResultSetsFor(fs) ==
  LET ns == DistinctNames(fs)
  IN { [i \in 1..Len(ns) |-> [name |-> ns[i], result |-> rs[i]]] :
         rs \in [1..Len(ns) -> {FRStructured, FRFailed}] } \cup { <<>> }

ExtractOutcomes(fs) ==
  { Ok200(d) : d \in ResultSetsFor(fs) } \cup HttpErrors \cup { Unparseable, NetworkFailure }

\* The try block of handleExtract after the fetch settled: the exception it
\* throws, if any, and the parsed data.
ExtractTry(o) ==
  IF o.kind = "neterr" THEN [exc |-> Some(FetchFailedMsg), data |-> None]
  ELSE LET j == ResponseJson(o.body) IN
    IF j.threw THEN [exc |-> Some(j.msg), data |-> None]
    ELSE IF ~ResOk(o) THEN
      IF o.body.json = "null" THEN [exc |-> Some(NullDerefMsg), data |-> None]
      ELSE [exc |-> Some(OrElse(o.body.detail, <<"Backend error: ", ToString(o.status)>>)),
            data |-> None]
    ELSE [exc |-> None, data |-> o.data]

\* The catch block of handleExtract: what it sets, logs and rethrows.
ExtractCatch(exc) == [error |-> exc, log |-> TRUE, rethrow |-> FALSE]

\* A setResults that keeps the entries the response does not name
ResultsAfter_Merge(prev, data) ==
  data \o SelectSeq(prev, LAMBDA e : \A k \in 1..Len(data) : data[k].name # e.name)

\* setResults(data): the result list after a response
ResultsAfter(prev, data) == data

\* handleExtract from the settled fetch to its end
ExtractDone(i, o) ==
  /\ page = "conv" /\ nav = None
  /\ i \in InFlight("/process-files")
  /\ o \in ExtractOutcomes(net[i].req)
  /\ LET t == ExtractTry(o)
         c == ExtractCatch(t.exc)
     IN IF IsSome(t.exc)
          THEN /\ conv' = [conv EXCEPT !.error = c.error, !.loading = FALSE]
               /\ escaped' = (escaped \/ c.rethrow)
               /\ ev' = Ev("handleExtract.done", o, TRUE, c.log, "none", <<>>)
               /\ UNCHANGED resultsFor
          ELSE /\ conv' = [conv EXCEPT !.results = ResultsAfter(@, Get(t.data)), !.loading = FALSE]
               /\ resultsFor' = net[i].req
               /\ ev' = Ev("handleExtract.done", o, TRUE, FALSE, "none", <<>>)
               /\ UNCHANGED escaped
  /\ view' = RenderResults(conv'.results)
  /\ net' = RemoveAt(net, i)
  /\ UNCHANGED <<page, nav, notConv, clearedSince, doc>>

\* An export bound to the preview rows alone
ExportRows_PreviewOnly(r) == r.preview

\* A cut at the first "." of the name
StripExt_AtFirstDot(name) ==
  LET dots == { i \in 1..Len(name) : name[i] = "." }
  IN IF dots = {} THEN name
     ELSE SubSeq(name, 1, (CHOOSE i \in dots : \A j \in dots : i <= j) - 1)

\* filename.replace(/\.[^/.]+$/, ""): cut the last "." and what follows it,
\* when at least one character follows and none of them is "/".
StripExt(name) ==
  LET dots == { i \in 1..(Len(name) - 1) :
                  /\ name[i] = "."
                  /\ \A j \in (i + 1)..Len(name) : name[j] \notin {".", "/"} }
  IN IF dots = {} THEN name ELSE SubSeq(name, 1, (CHOOSE i \in dots : TRUE) - 1)

Formats == {"csv", "excel"}

\* The entries whose card shows the two download buttons
Downloadable == { k \in 1..Len(conv.results) : "structured" \in CardSections(conv.results[k].result) }

\* result.dataframe || result.preview
ExportRows(r) == IF IsSome(r.dataframe) THEN r.dataframe ELSE r.preview

\* handleDownload up to its fetch
HandleDownload(k, format) ==
  /\ page = "conv" /\ nav = None
  /\ k \in Downloadable
  /\ Len(net) < MaxInFlight
  /\ LET payload == [dataframe |-> ExportRows(conv.results[k].result),
                     format |-> format,
                     filename |-> StripExt(conv.results[k].name) \o <<"_extracted">>]
     IN /\ net' = Append(net, [ep |-> "/download", req |-> payload])
        /\ ev' = Ev("handleDownload", payload, FALSE, FALSE, "none", <<>>)
  /\ UNCHANGED <<page, nav, notConv, conv, view, escaped, resultsFor, clearedSince, doc>>

DownloadOutcomes == { Ok200(<<"blob">>) } \cup HttpErrors \cup { NetworkFailure }

\* The try block with a fallback message that leaves the status out
DownloadTry_NoStatus(o) ==
  IF o.kind = "neterr" THEN [exc |-> Some(FetchFailedMsg)]
  ELSE IF ~ResOk(o) THEN
    LET j == ResponseJson(o.body) IN
      IF j.threw THEN [exc |-> Some(j.msg)]
      ELSE IF o.body.json = "null" THEN [exc |-> Some(NullDerefMsg)]
      ELSE [exc |-> Some(OrElse(o.body.detail, <<"Download error">>))]
  ELSE [exc |-> None]

\* The try block of handleDownload after the fetch settled
DownloadTry(o) ==
  IF o.kind = "neterr" THEN [exc |-> Some(FetchFailedMsg)]
  ELSE IF ~ResOk(o) THEN
    LET j == ResponseJson(o.body) IN
      IF j.threw THEN [exc |-> Some(j.msg)]
      ELSE IF o.body.json = "null" THEN [exc |-> Some(NullDerefMsg)]
      ELSE [exc |-> Some(OrElse(o.body.detail, <<"Download error: ", ToString(o.status)>>))]
  ELSE [exc |-> None]

\* A catch block that throws again instead of ending the handler
DownloadCatch_Rethrow(exc) ==
  [error |-> Some(<<"Download failed: ">> \o Get(exc)), log |-> TRUE, rethrow |-> TRUE]

\* The catch block of handleDownload
DownloadCatch(exc) ==
  [error |-> Some(<<"Download failed: ">> \o Get(exc)), log |-> TRUE, rethrow |-> FALSE]

\* The name of the file the browser saves
DownloadName(payload) == payload.filename \o (IF payload.format = "csv" THEN <<".csv">> ELSE <<".xlsx">>)

\* The document before any download: no object URL alive
DocInit == {}

\* window.URL.createObjectURL gives a URL no living object URL has
FreshUrl(urls) == CHOOSE n \in 1..(Cardinality(urls) + 1) : n \notin urls

\* The object URLs alive after a sequence of URL and anchor calls
RECURSIVE UrlsAfter(_, _)
UrlsAfter(urls, calls) ==
  IF calls = <<>> THEN urls
  ELSE LET c == Head(calls)
           next == IF c.call = "createObjectURL" THEN urls \cup {c.url}
                   ELSE IF c.call = "revokeObjectURL" THEN urls \ {c.url}
                   ELSE urls
       IN UrlsAfter(next, Tail(calls))

\* A download that leaves its object URL alive
SaveBlob_NoRevoke(url, name) ==
  << [call |-> "createObjectURL", url |-> url, name |-> <<>>],
     [call |-> "appendChild", url |-> url, name |-> name],
     [call |-> "click", url |-> url, name |-> name],
     [call |-> "remove", url |-> url, name |-> name] >>

\* The tail of handleDownload's try block: createObjectURL(blob), an anchor
\* with href and download set, appendChild, click, remove, revokeObjectURL
SaveBlob(url, name) ==
  << [call |-> "createObjectURL", url |-> url, name |-> <<>>],
     [call |-> "appendChild", url |-> url, name |-> name],
     [call |-> "click", url |-> url, name |-> name],
     [call |-> "remove", url |-> url, name |-> name],
     [call |-> "revokeObjectURL", url |-> url, name |-> <<>>] >>

\* The blob branch of fetchData: createObjectURL(blob), an anchor with href
\* and download set, click, revokeObjectURL
SaveCleaned(url, name) ==
  << [call |-> "createObjectURL", url |-> url, name |-> <<>>],
     [call |-> "click", url |-> url, name |-> name],
     [call |-> "revokeObjectURL", url |-> url, name |-> <<>>] >>

\* The handler segment, with the URL and anchor calls it made
WithCalls(e, calls) == [e EXCEPT !.calls = calls]

\* handleDownload from the settled fetch to its end
DownloadDone(i, o) ==
  /\ page = "conv" /\ nav = None
  /\ i \in InFlight("/download")
  /\ o \in DownloadOutcomes
  /\ LET t == DownloadTry(o)
         c == DownloadCatch(t.exc)
     IN IF IsSome(t.exc)
          THEN /\ conv' = [conv EXCEPT !.error = c.error]
               /\ escaped' = (escaped \/ c.rethrow)
               /\ ev' = Ev("handleDownload.done", o, TRUE, c.log, "none", <<>>)
               /\ doc' = doc
          ELSE /\ LET calls == SaveBlob(FreshUrl(doc), DownloadName(net[i].req))
                  IN /\ ev' = WithCalls(Ev("handleDownload.done", o, FALSE, FALSE, "download",
                                           DownloadName(net[i].req)), calls)
                     /\ doc' = UrlsAfter(doc, calls)
               /\ UNCHANGED <<conv, escaped>>
  /\ view' = RenderResults(conv'.results)
  /\ net' = RemoveAt(net, i)
  /\ UNCHANGED <<page, nav, notConv, resultsFor, clearedSince>>

---------------------------------------------------------------------------
(* Dashboard and ChatInterface *)

Sid == <<"s", "e", "s", "s", "i", "o", "n", "-", "1", "2">>

\* What the page is opened with: location.state (with a session id, or with
\* an empty one), or nothing
LocationStates ==
  { [session_id |-> None, charts |-> None, kpis |-> None],
    [session_id |-> Some(<<>>), charts |-> Some("C0"), kpis |-> Some("K0")],
    [session_id |-> Some(Sid), charts |-> Some("C0"), kpis |-> Some("K0")] }

\* useState(initialCharts || []) and the other initial values
DashInit(loc) ==
  [charts |-> IF IsSome(loc.charts) THEN Get(loc.charts) ELSE "[]",
   kpis |-> IF IsSome(loc.kpis) THEN Get(loc.kpis) ELSE "[]",
   messages |-> <<>>, loading |-> FALSE,
   insights |-> None, showInsights |-> FALSE, loadingInsights |-> FALSE]

\* A test that takes the empty string for a session id
NoSession_UndefinedOnly == ~IsSome(session_id)

\* if (!session_id): the page renders only the No Active Session view
NoSession == IF IsSome(session_id) THEN Get(session_id) = <<>> ELSE TRUE

DashShown == page = "dash" /\ nav = None /\ ~NoSession

\* What the user can type into the input box
Inputs == { <<" ">>, <<"pie">>, <<" ", "bar", " ">> }

\* String.prototype.trim
Trim(s) ==
  LET solid == { i \in 1..Len(s) : s[i] # " " }
  IN IF solid = {} THEN <<>>
     ELSE SubSeq(s, CHOOSE i \in solid : \A j \in solid : i <= j,
                    CHOOSE i \in solid : \A j \in solid : j <= i)

\* onChange of the input box
SetInput(s) ==
  /\ DashShown
  /\ input' = s
  /\ ev' = Ev("setInput", s, TRUE, FALSE, "none", <<>>)
  /\ UNCHANGED <<page, nav, net, notDash, session_id, dash, escaped>>

\* The condition without its loading test
SubmitAccepted_NoLoadingTest == Trim(input) # <<>>

\* handleSubmit's condition: input.trim() && !loading
SubmitAccepted == Trim(input) # <<>> /\ ~dash.loading

UserMsg(text) == [role |-> "user", content |-> text]
BotMsg(text) == [role |-> "assistant", content |-> text]

\* handleSubmit, with handleSendMessage up to its fetch when the submit is
\* accepted
HandleSubmit ==
  /\ DashShown
  /\ IF SubmitAccepted
       THEN /\ Len(dash.messages) < 2 * MaxTurns
            /\ Len(net) < MaxInFlight
            /\ dash' = [dash EXCEPT !.messages = Append(@, UserMsg(input)), !.loading = TRUE]
            /\ net' = Append(net, [ep |-> "/api/dashboard/chat",
                                   req |-> [session_id |-> session_id, message |-> input]])
            /\ input' = <<>>
            /\ ev' = Ev("handleSubmit", input, TRUE, FALSE, "none", <<>>)
       ELSE /\ ev' = Ev("handleSubmit", input, FALSE, FALSE, "none", <<>>)
            /\ UNCHANGED <<dash, net, input>>
  /\ UNCHANGED <<page, nav, notDash, session_id, escaped>>

ChatReply(success, charts, reply) == [success |-> success, charts |-> charts, reply |-> reply]

ChatOutcomes ==
  { Ok200(ChatReply(TRUE, "C1", <<"Done">>)), Ok200(ChatReply(FALSE, "C2", <<"no">>)),
    HttpError(500, BodyDetail), HttpError(500, BodyNull), Unparseable, NetworkFailure }

\* The try block of handleSendMessage after the fetch settled: response.ok
\* is not looked at; the body is parsed and data.success decides.
ChatTry(o) ==
  IF o.kind = "neterr" THEN [exc |-> Some(FetchFailedMsg), success |-> FALSE, data |-> None]
  ELSE LET j == ResponseJson(o.body) IN
    IF j.threw THEN [exc |-> Some(j.msg), success |-> FALSE, data |-> None]
    ELSE IF o.body.json = "null" THEN [exc |-> Some(NullDerefMsg), success |-> FALSE, data |-> None]
    ELSE IF IsSome(o.data) /\ Get(o.data).success
      THEN [exc |-> None, success |-> TRUE, data |-> o.data]
      ELSE [exc |-> None, success |-> FALSE, data |-> None]

CouldNotProcess == <<"Sorry, I couldn't process that.">>
NetworkErrorText == <<"Network error. Please try again.">>

\* A catch block that throws again instead of ending the handler
ChatCatch_Rethrow(exc) == [msg |-> BotMsg(NetworkErrorText), log |-> TRUE, rethrow |-> TRUE]

\* The catch block of handleSendMessage
ChatCatch(exc) == [msg |-> BotMsg(NetworkErrorText), log |-> TRUE, rethrow |-> FALSE]

\* A success branch that also puts the response's charts in the KPI list
ChatSuccess_ChartsIntoKpis(d, data) ==
  [d EXCEPT !.charts = data.charts, !.kpis = data.charts,
            !.messages = Append(@, BotMsg(data.reply)), !.loading = FALSE]

\* A success branch that starts the transcript again with the reply
ChatSuccess_ResetTranscript(d, data) ==
  [d EXCEPT !.charts = data.charts, !.messages = <<BotMsg(data.reply)>>, !.loading = FALSE]

\* The success branch of handleSendMessage: setCharts(data.charts) and the
\* reply appended to the transcript
ChatSuccess_KeepCharts(d, data) ==
  [d EXCEPT !.messages = Append(@, BotMsg(data.reply)), !.loading = FALSE]

\* A success branch that shows the charts and appends no reply
ChatSuccess_NoReply(d, data) ==
  [d EXCEPT !.charts = data.charts, !.loading = FALSE]

ChatSuccess(d, data) ==
  [d EXCEPT !.charts = data.charts, !.messages = Append(@, BotMsg(data.reply)), !.loading = FALSE]

\* handleSendMessage from the settled fetch to its end
ChatDone(i, o) ==
  /\ DashShown
  /\ i \in InFlight("/api/dashboard/chat")
  /\ o \in ChatOutcomes
  /\ LET t == ChatTry(o)
         c == ChatCatch(t.exc)
     IN IF IsSome(t.exc)
          THEN /\ dash' = [dash EXCEPT !.messages = Append(@, c.msg), !.loading = FALSE]
               /\ escaped' = (escaped \/ c.rethrow)
               /\ ev' = Ev("handleSendMessage.done", o, TRUE, c.log, "none", <<>>)
          ELSE /\ IF t.success
                    THEN dash' = ChatSuccess(dash, Get(t.data))
                    ELSE dash' = [dash EXCEPT !.messages = Append(@, BotMsg(CouldNotProcess)),
                                              !.loading = FALSE]
               /\ ev' = Ev("handleSendMessage.done", o, TRUE, FALSE, "none", <<>>)
               /\ UNCHANGED escaped
  /\ net' = RemoveAt(net, i)
  /\ UNCHANGED <<page, nav, notDash, session_id, input>>

InsightsReply(success, insights, message) ==
  [success |-> success, insights |-> insights, message |-> message]

InsightsOutcomes ==
  { Ok200(InsightsReply(TRUE, "I1", None)), Ok200(InsightsReply(TRUE, "I2", None)),
    Ok200(InsightsReply(FALSE, "I1", Some(<<"no data">>))), Ok200(InsightsReply(FALSE, "I1", None)),
    Unparseable, NetworkFailure } \cup HttpErrors

\* The Get Insights button's disabled attribute
GetInsightsDisabled == dash.loadingInsights

\* handleGetInsights up to its fetch
HandleGetInsights ==
  /\ DashShown
  /\ ~GetInsightsDisabled
  /\ Len(net) < MaxInFlight
  /\ dash' = [dash EXCEPT !.loadingInsights = TRUE]
  /\ net' = Append(net, [ep |-> "/api/dashboard/insights", req |-> session_id])
  /\ ev' = Ev("handleGetInsights", session_id, TRUE, FALSE, "none", <<>>)
  /\ UNCHANGED <<page, nav, notDash, session_id, input, escaped>>

\* The try block of handleGetInsights after the fetch settled.  On a non-2xx
\* response, response.json().catch(() => ({detail: "Server error"})) and
\* then throw new Error(errorData.detail || "Failed to generate insights").
InsightsTry(o) ==
  IF o.kind = "neterr" THEN [exc |-> Some(FetchFailedMsg), data |-> None]
  ELSE LET j == ResponseJson(o.body) IN
    IF ~ResOk(o) THEN
      IF j.threw THEN [exc |-> Some(<<"Server error">>), data |-> None]
      ELSE IF o.body.json = "null" THEN [exc |-> Some(NullDerefMsg), data |-> None]
      ELSE [exc |-> Some(OrElse(o.body.detail, <<"Failed to generate insights">>)), data |-> None]
    ELSE IF j.threw THEN [exc |-> Some(j.msg), data |-> None]
    ELSE [exc |-> None, data |-> o.data]

\* The catch block of handleGetInsights
InsightsCatch(exc) ==
  [alert |-> <<"Insight Error: ">> \o Get(exc), log |-> TRUE, rethrow |-> FALSE]

\* A success branch that keeps an insight set it already has
InsightsSuccess_KeepPrior(d, data) ==
  [d EXCEPT !.insights = IF IsSome(@) THEN @ ELSE Some(data.insights),
            !.showInsights = TRUE, !.loadingInsights = FALSE]

\* A success branch the finally block does not follow
InsightsSuccess_StaysPending(d, data) ==
  [d EXCEPT !.insights = Some(data.insights), !.showInsights = TRUE]

\* The success branch of handleGetInsights: setInsights(data.insights),
\* setShowInsights(true), and the finally block's setLoadingInsights(false)
InsightsSuccess(d, data) ==
  [d EXCEPT !.insights = Some(data.insights), !.showInsights = TRUE, !.loadingInsights = FALSE]

\* handleGetInsights from the settled fetch to its end
GetInsightsDone(i, o) ==
  /\ DashShown
  /\ i \in InFlight("/api/dashboard/insights")
  /\ o \in InsightsOutcomes
  /\ LET t == InsightsTry(o)
         c == InsightsCatch(t.exc)
     IN IF IsSome(t.exc)
          THEN /\ dash' = [dash EXCEPT !.loadingInsights = FALSE]
               /\ escaped' = (escaped \/ c.rethrow)
               /\ ev' = Ev("handleGetInsights.done", o, TRUE, c.log, "alert", c.alert)
          ELSE /\ IF Get(t.data).success
                    THEN /\ dash' = InsightsSuccess(dash, Get(t.data))
                         /\ ev' = Ev("handleGetInsights.done", o, TRUE, FALSE, "none", <<>>)
                    ELSE /\ dash' = [dash EXCEPT !.loadingInsights = FALSE]
                         /\ ev' = Ev("handleGetInsights.done", o, TRUE, FALSE, "alert",
                                     OrElse(Get(t.data).message, <<"Failed to get insights. Try again.">>))
               /\ UNCHANGED escaped
  /\ net' = RemoveAt(net, i)
  /\ UNCHANGED <<page, nav, notDash, session_id, input>>

\* The close button of the insights modal
CloseInsights ==
  /\ DashShown
  /\ dash.showInsights
  /\ dash' = [dash EXCEPT !.showInsights = FALSE]
  /\ ev' = Ev("closeInsights", <<>>, TRUE, FALSE, "none", <<>>)
  /\ UNCHANGED <<page, nav, net, notDash, session_id, input, escaped>>

\* The last n characters, as slice(-n) gives them
Slice0_FromEnd(s, n) == SubSeq(s, IF Len(s) < n THEN 1 ELSE Len(s) - n + 1, Len(s))

\* String.prototype.slice(0, n)
Slice0(s, n) == SubSeq(s, 1, IF Len(s) < n THEN Len(s) ELSE n)

\* The name handleDownloadPDF saves under
PdfName == <<"dashboard-report-">> \o Slice0(Get(session_id), 8) \o <<".pdf">>

\* The catch block of handleDownloadPDF
PdfCatch == [log |-> TRUE, rethrow |-> FALSE]

\* handleDownloadPDF.  It reads and sets no state, so the step takes the
\* outcome of html2canvas with it: TRUE when the region was rasterized.
HandleDownloadPDF(rasterized) ==
  /\ DashShown
  /\ IF rasterized
       THEN /\ ev' = Ev("handleDownloadPDF", <<"rasterized">>, FALSE, FALSE, "save", PdfName)
            /\ UNCHANGED escaped
       ELSE /\ ev' = Ev("handleDownloadPDF", <<"failed">>, FALSE, PdfCatch.log, "none", <<>>)
            /\ escaped' = (escaped \/ PdfCatch.rethrow)
  /\ UNCHANGED <<page, nav, net, notDash, session_id, dash, input>>

\* navigate(path): the page is unmounted and its calls in flight abandoned
Navigate(h, path) ==
  /\ nav' = Some(path)
  /\ net' = <<>>
  /\ ev' = Ev(h, <<>>, FALSE, FALSE, "navigate", path)

\* The Go to Upload button of the No Active Session view
GoToUpload ==
  /\ page = "dash" /\ nav = None /\ NoSession
  /\ Navigate("goToUpload", <<"/data-cleaning">>)
  /\ UNCHANGED <<page, notDash, session_id, dash, input, escaped>>

\* The back arrow of the dashboard
DashBack ==
  /\ DashShown
  /\ Navigate("dashBack", <<"/data-cleaning">>)
  /\ UNCHANGED <<page, notDash, session_id, dash, input, escaped>>

---------------------------------------------------------------------------
(* DataCleaner *)

CleanerInit == [file |-> None, analysis |-> None, loading |-> FALSE, error |-> None]

CleanerShown == page = "clean" /\ nav = None

\* handleFileUpload of the data-cleaning page: event.target.files[0], which
\* is undefined when the picker delivers an empty list
HandleFileUploadCleaner(selectedFile) ==
  /\ CleanerShown
  /\ IF IsSome(selectedFile)
       THEN /\ cleaner' = [cleaner EXCEPT !.file = selectedFile, !.analysis = None, !.error = None]
            /\ ev' = Ev("cleaner.handleFileUpload", selectedFile, TRUE, FALSE, "none", <<>>)
       ELSE /\ ev' = Ev("cleaner.handleFileUpload", selectedFile, FALSE, FALSE, "none", <<>>)
            /\ UNCHANGED cleaner
  /\ UNCHANGED <<page, nav, net, notCleaner, escaped, doc>>

\* analyzeFile, cleanFile, cleanAndAnalyze: the endpoint and expectBlob
CleanerEndpoints == { "/api/analyze", "/api/clean", "/api/clean-and-analyze" }
ExpectBlob(ep) == ep = "/api/clean"

\* The three buttons are rendered while a file is selected and share the
\* disabled attribute.
CleanerButtonsShown == IsSome(cleaner.file)
CleanerDisabled == cleaner.loading

\* fetchData up to its fetch
FetchData(ep) ==
  /\ CleanerShown
  /\ CleanerButtonsShown /\ ~CleanerDisabled
  /\ IsSome(cleaner.file)
  /\ Len(net) < MaxInFlight
  /\ cleaner' = [cleaner EXCEPT !.loading = TRUE, !.error = None]
  /\ net' = Append(net, [ep |-> ep, req |-> cleaner.file])
  /\ ev' = Ev("fetchData", <<ep>>, TRUE, FALSE, "none", <<>>)
  /\ UNCHANGED <<page, nav, notCleaner, escaped, doc>>

CleanerOutcomes ==
  { Ok200("A1"), Ok200("A2"), Unparseable, NetworkFailure } \cup HttpErrors

\* The try block of fetchData after the fetch settled.  On a non-2xx
\* response the inner try reads response.json() and its catch then reads
\* response.text() of the same response.
FetchDataTry(o, expectBlob) ==
  IF o.kind = "neterr" THEN [exc |-> Some(FetchFailedMsg), data |-> None]
  ELSE IF ~ResOk(o) THEN
    LET j == ResponseJson(o.body)
        t == ResponseText(o.body, j.bodyUsed)
    IN IF j.threw \/ o.body.json = "null"
         THEN IF t.threw THEN [exc |-> Some(t.msg), data |-> None]
                         ELSE [exc |-> Some(t.text), data |-> None]
         ELSE [exc |-> Some(OrElse(o.body.detail, <<"Unknown backend error">>)), data |-> None]
  ELSE IF expectBlob THEN [exc |-> None, data |-> None]
  ELSE IF o.body.json = "bad" THEN [exc |-> Some(SyntaxErrorMsg), data |-> None]
  ELSE [exc |-> None, data |-> o.data]

\* The catch block of fetchData: err.message || "An unexpected error occurred"
FetchDataCatch(exc) ==
  [error |-> Some(OrElse(exc, <<"An unexpected error occurred">>)), log |-> TRUE, rethrow |-> FALSE]

\* setAnalysis(prev => ({ ...prev, downloadSuccess: true }))
WithDownloadSuccess(prev) ==
  Some([data |-> IF IsSome(prev) THEN Get(prev).data ELSE "none", downloadSuccess |-> TRUE])

\* fetchData from the settled fetch to its end
FetchDataDone(i, o) ==
  /\ CleanerShown
  /\ i \in 1..Len(net) /\ net[i].ep \in CleanerEndpoints
  /\ o \in CleanerOutcomes
  /\ LET blob == ExpectBlob(net[i].ep)
         t == FetchDataTry(o, blob)
         c == FetchDataCatch(t.exc)
     IN IF IsSome(t.exc)
          THEN /\ cleaner' = [cleaner EXCEPT !.error = c.error, !.loading = FALSE]
               /\ escaped' = (escaped \/ c.rethrow)
               /\ ev' = Ev("fetchData.done", o, TRUE, c.log, "none", <<>>)
               /\ doc' = doc
          ELSE /\ IF blob
                    THEN /\ cleaner' = [cleaner EXCEPT !.analysis = WithDownloadSuccess(@),
                                                       !.loading = FALSE]
                         /\ LET calls == SaveCleaned(FreshUrl(doc), <<"cleaned_">> \o Get(net[i].req))
                            IN /\ ev' = WithCalls(Ev("fetchData.done", o, TRUE, FALSE, "download",
                                                     <<"cleaned_">> \o Get(net[i].req)), calls)
                               /\ doc' = UrlsAfter(doc, calls)
                    ELSE /\ cleaner' = [cleaner EXCEPT
                                          !.analysis = Some([data |-> Get(t.data), downloadSuccess |-> FALSE]),
                                          !.loading = FALSE]
                         /\ ev' = Ev("fetchData.done", o, TRUE, TRUE, "none", <<>>)
                         /\ doc' = doc
               /\ UNCHANGED escaped
  /\ net' = RemoveAt(net, i)
  /\ UNCHANGED <<page, nav, notCleaner>>

---------------------------------------------------------------------------
(* InsightGeneration *)

InsgenInit == [file |-> None, preview |-> None, loading |-> FALSE, insights |-> None, error |-> None]

InsgenShown == page = "insight" /\ nav = None

ImageFile == [name |-> <<"d", ".", "png">>, image |-> TRUE]
PdfFile == [name |-> <<"r", ".", "pdf">>, image |-> FALSE]

\* handleFileChange: e.target.files[0]; an image is read by a FileReader
\* whose onloadend sets the preview later.
HandleFileChange(selectedFile) ==
  /\ InsgenShown
  /\ ~IsSome(insgen.file)
  /\ IF IsSome(selectedFile)
       THEN /\ IF Get(selectedFile).image
                 THEN /\ Len(net) < MaxInFlight
                      /\ insgen' = [insgen EXCEPT !.file = selectedFile, !.error = None,
                                                  !.insights = None]
                      /\ net' = Append(net, [ep |-> "FileReader", req |-> selectedFile])
                 ELSE /\ insgen' = [insgen EXCEPT !.file = selectedFile, !.error = None,
                                                  !.insights = None, !.preview = None]
                      /\ UNCHANGED net
            /\ ev' = Ev("handleFileChange", selectedFile, TRUE, FALSE, "none", <<>>)
       ELSE /\ ev' = Ev("handleFileChange", selectedFile, FALSE, FALSE, "none", <<>>)
            /\ UNCHANGED <<insgen, net>>
  /\ UNCHANGED <<page, nav, notInsgen, escaped>>

\* reader.onloadend: setPreview(reader.result)
ReaderLoadEnd(i) ==
  /\ InsgenShown
  /\ i \in InFlight("FileReader")
  /\ insgen' = [insgen EXCEPT !.preview = Some(<<"data:">> \o Get(net[i].req).name)]
  /\ net' = RemoveAt(net, i)
  /\ ev' = Ev("reader.onloadend", net[i].req, TRUE, FALSE, "none", <<>>)
  /\ UNCHANGED <<page, nav, notInsgen, escaped>>

\* clearFile: its button is rendered while a file is selected
ClearFile ==
  /\ InsgenShown
  /\ IsSome(insgen.file)
  /\ insgen' = [insgen EXCEPT !.file = None, !.preview = None, !.insights = None, !.error = None]
  /\ ev' = Ev("clearFile", <<>>, TRUE, FALSE, "none", <<>>)
  /\ UNCHANGED <<page, nav, net, notInsgen, escaped>>

\* The Generate Insights button is rendered while a file is selected.
GenerateShown == IsSome(insgen.file)
GenerateDisabled == insgen.loading

\* generateInsights up to its fetch
GenerateInsights ==
  /\ InsgenShown
  /\ GenerateShown /\ ~GenerateDisabled
  /\ IsSome(insgen.file)
  /\ Len(net) < MaxInFlight
  /\ insgen' = [insgen EXCEPT !.loading = TRUE, !.error = None]
  /\ net' = Append(net, [ep |-> "/api/insights/generate", req |-> insgen.file])
  /\ ev' = Ev("generateInsights", insgen.file, TRUE, FALSE, "none", <<>>)
  /\ UNCHANGED <<page, nav, notInsgen, escaped>>

GenerateOutcomes == { Ok200("I1"), Ok200("I2"), Unparseable, NetworkFailure } \cup HttpErrors

\* The try block of generateInsights after the fetch settled.  On a non-2xx
\* response, response.json().catch(() => ({})) and then
\* throw new Error(errData.detail || "Failed to generate insights").
GenerateTry(o) ==
  IF o.kind = "neterr" THEN [exc |-> Some(FetchFailedMsg), data |-> None]
  ELSE LET j == ResponseJson(o.body) IN
    IF ~ResOk(o) THEN
      IF j.threw THEN [exc |-> Some(<<"Failed to generate insights">>), data |-> None]
      ELSE IF o.body.json = "null" THEN [exc |-> Some(NullDerefMsg), data |-> None]
      ELSE [exc |-> Some(OrElse(o.body.detail, <<"Failed to generate insights">>)), data |-> None]
    ELSE IF j.threw THEN [exc |-> Some(j.msg), data |-> None]
    ELSE [exc |-> None, data |-> o.data]

\* A catch block that shows its fallback text whatever the error says
GenerateCatch_FixedText(exc) ==
  [error |-> Some(<<"Something went wrong. Please try again.">>), log |-> TRUE, rethrow |-> FALSE]

\* The catch block of generateInsights
GenerateCatch(exc) ==
  [error |-> Some(OrElse(exc, <<"Something went wrong. Please try again.">>)),
   log |-> TRUE, rethrow |-> FALSE]

\* generateInsights from the settled fetch to its end
GenerateDone(i, o) ==
  /\ InsgenShown
  /\ i \in InFlight("/api/insights/generate")
  /\ o \in GenerateOutcomes
  /\ LET t == GenerateTry(o)
         c == GenerateCatch(t.exc)
     IN IF IsSome(t.exc)
          THEN /\ insgen' = [insgen EXCEPT !.error = c.error, !.loading = FALSE]
               /\ escaped' = (escaped \/ c.rethrow)
               /\ ev' = Ev("generateInsights.done", o, TRUE, c.log, "none", <<>>)
          ELSE /\ insgen' = [insgen EXCEPT !.insights = t.data, !.loading = FALSE]
               /\ ev' = Ev("generateInsights.done", o, TRUE, FALSE, "none", <<>>)
               /\ UNCHANGED escaped
  /\ net' = RemoveAt(net, i)
  /\ UNCHANGED <<page, nav, notInsgen>>

\* The back arrow of the insight page
InsgenBack ==
  /\ InsgenShown
  /\ Navigate("insgenBack", <<"/homepage">>)
  /\ UNCHANGED <<page, notInsgen, insgen, escaped>>

---------------------------------------------------------------------------
(* Login and Signup *)

AuthInit == [error |-> <<>>]

LoginShown == page = "login" /\ nav = None
SignupShown == page = "signup" /\ nav = None

\* What the authentication provider answers: "ok", or the code of an error
ProviderOutcomes ==
  { "ok", "auth/user-not-found", "auth/wrong-password", "auth/invalid-email",
    "auth/email-already-in-use", "auth/weak-password", "auth/network-request-failed" }

GenericAuthError == <<"Something went wrong. Please try again later.">>

\* handleLogin up to signInWithEmailAndPassword
HandleLogin ==
  /\ LoginShown
  /\ Len(net) < MaxInFlight
  /\ auth' = [auth EXCEPT !.error = <<>>]
  /\ net' = Append(net, [ep |-> "signInWithEmailAndPassword", req |-> <<>>])
  /\ ev' = Ev("handleLogin", <<>>, TRUE, FALSE, "none", <<>>)
  /\ UNCHANGED <<page, nav, notAuth, escaped>>

\* A catch block that shows the generic message whatever the code
LoginCatch_AlwaysGeneric(code) ==
  [error |-> GenericAuthError, log |-> FALSE, rethrow |-> FALSE]

\* The catch block of handleLogin
LoginCatch(code) ==
  [error |-> IF code \in {"auth/user-not-found", "auth/wrong-password"}
               THEN <<"Invalid email or password. Please try again.">>
             ELSE IF code = "auth/invalid-email"
               THEN <<"Please enter a valid email address.">>
             ELSE GenericAuthError,
   log |-> FALSE, rethrow |-> FALSE]

\* handleLogin from the settled sign-in to its end
LoginDone(i, code) ==
  /\ LoginShown
  /\ i \in InFlight("signInWithEmailAndPassword")
  /\ code \in ProviderOutcomes
  /\ IF code = "ok"
       THEN /\ Navigate("handleLogin.done", <<"/HomePage">>)
            /\ UNCHANGED <<auth, escaped>>
       ELSE /\ auth' = [auth EXCEPT !.error = LoginCatch(code).error]
            /\ escaped' = (escaped \/ LoginCatch(code).rethrow)
            /\ net' = RemoveAt(net, i)
            /\ ev' = Ev("handleLogin.done", <<code>>, TRUE, LoginCatch(code).log, "none", <<>>)
            /\ UNCHANGED nav
  /\ UNCHANGED <<page, notAuth>>

\* The Sign up link of the login page
LoginToSignup ==
  /\ LoginShown
  /\ Navigate("link", <<"/signup">>)
  /\ UNCHANGED <<page, notAuth, auth, escaped>>

\* handleSignup up to createUserWithEmailAndPassword
HandleSignup ==
  /\ SignupShown
  /\ Len(net) < MaxInFlight
  /\ auth' = [auth EXCEPT !.error = <<>>]
  /\ net' = Append(net, [ep |-> "createUserWithEmailAndPassword", req |-> <<>>])
  /\ ev' = Ev("handleSignup", <<>>, TRUE, FALSE, "none", <<>>)
  /\ UNCHANGED <<page, nav, notAuth, escaped>>

\* The catch block of handleSignup
SignupCatch(code) ==
  [error |-> IF code = "auth/email-already-in-use"
               THEN <<"This email is already registered.">>
             ELSE IF code = "auth/invalid-email"
               THEN <<"Please enter a valid email address.">>
             ELSE IF code = "auth/weak-password"
               THEN <<"Password should be at least 6 characters.">>
             ELSE GenericAuthError,
   log |-> FALSE, rethrow |-> FALSE]

\* handleSignup from the settled createUserWithEmailAndPassword: on success
\* it goes on to updateProfile.
SignupCreated(i, code) ==
  /\ SignupShown
  /\ i \in InFlight("createUserWithEmailAndPassword")
  /\ code \in ProviderOutcomes
  /\ IF code = "ok"
       THEN /\ net' = Append(RemoveAt(net, i), [ep |-> "updateProfile", req |-> <<>>])
            /\ ev' = Ev("handleSignup.created", <<code>>, FALSE, FALSE, "none", <<>>)
            /\ UNCHANGED <<auth, escaped>>
       ELSE /\ auth' = [auth EXCEPT !.error = SignupCatch(code).error]
            /\ escaped' = (escaped \/ SignupCatch(code).rethrow)
            /\ net' = RemoveAt(net, i)
            /\ ev' = Ev("handleSignup.done", <<code>>, TRUE, SignupCatch(code).log, "none", <<>>)
  /\ UNCHANGED <<page, nav, notAuth>>

\* handleSignup from the settled updateProfile to its end
SignupDone(i, code) ==
  /\ SignupShown
  /\ i \in InFlight("updateProfile")
  /\ code \in ProviderOutcomes
  /\ IF code = "ok"
       THEN /\ Navigate("handleSignup.done", <<"/">>)
            /\ UNCHANGED <<auth, escaped>>
       ELSE /\ auth' = [auth EXCEPT !.error = SignupCatch(code).error]
            /\ escaped' = (escaped \/ SignupCatch(code).rethrow)
            /\ net' = RemoveAt(net, i)
            /\ ev' = Ev("handleSignup.done", <<code>>, TRUE, SignupCatch(code).log, "none", <<>>)
            /\ UNCHANGED nav
  /\ UNCHANGED <<page, notAuth>>

\* The Log in link of the signup page
SignupToLogin ==
  /\ SignupShown
  /\ Navigate("link", <<"/">>)
  /\ UNCHANGED <<page, notAuth, auth, escaped>>

---------------------------------------------------------------------------
(* HomePage and the router *)

HomeShown == page = "home" /\ nav = None

\* The to attribute of the four cards' links
HomeLinks == { <<"/ai-conversion">>, <<"/data-cleaning">>, <<"/insight-generation">> }

\* A click on a card of the home page
HomeLink(path) ==
  /\ HomeShown
  /\ path \in HomeLinks
  /\ Navigate("link", path)
  /\ UNCHANGED <<page, notAuth, auth, escaped>>

\* The Route elements of App, in order
Routes ==
  << [path |-> <<"/">>, element |-> "Login"],
     [path |-> <<"/signup">>, element |-> "Signup"],
     [path |-> <<"/homepage">>, element |-> "HomePage"],
     [path |-> <<"/data-cleaning">>, element |-> "DataCleaner"],
     [path |-> <<"/ai-conversion">>, element |-> "FileToTableConverter"] >>

\* The lower-case form of a path segment the pages use
LowerCase(t) == IF t = "/HomePage" THEN "/homepage" ELSE t

\* Route matching: a Route without caseSensitive matches the location
\* whatever the case of its letters; the first match in order is rendered.
SamePath(p, q) ==
  Len(p) = Len(q) /\ \A i \in 1..Len(p) : LowerCase(p[i]) = LowerCase(q[i])

\* The element the router renders at a path, None when no Route matches
MatchRoute(path) ==
  LET hits == { i \in 1..Len(Routes) : SamePath(Routes[i].path, path) }
  IN IF hits = {} THEN None
     ELSE Some(Routes[CHOOSE i \in hits : \A j \in hits : i <= j].element)

---------------------------------------------------------------------------
(* The application *)

NoLocation == [session_id |-> None, charts |-> None, kpis |-> None]

\* The state after page p was mounted, the dashboard with location.state loc
Mounted(p, loc) ==
  /\ page = p
  /\ nav = None
  /\ net = <<>>
  /\ conv = ConvInit
  /\ view = <<>>
  /\ session_id = loc.session_id
  /\ dash = DashInit(loc)
  /\ input = <<>>
  /\ cleaner = CleanerInit
  /\ insgen = InsgenInit
  /\ auth = AuthInit
  /\ doc = DocInit
  /\ ev = Ev("mount", <<>>, FALSE, FALSE, "none", <<>>)
  /\ escaped = FALSE
  /\ resultsFor = <<>>
  /\ clearedSince = FALSE

InitConv == Mounted("conv", NoLocation)
InitDash == \E loc \in LocationStates : Mounted("dash", loc)
InitCleaner == Mounted("clean", NoLocation)
InitInsgen == Mounted("insight", NoLocation)
InitAuth == \E p \in {"login", "signup"} : Mounted(p, NoLocation)
InitHome == Mounted("home", NoLocation)

Init == InitConv \/ InitDash \/ InitCleaner \/ InitInsgen \/ InitAuth \/ InitHome

NextConv ==
  \/ \E fs \in FileLists : HandleFileUploadConv(fs)
  \/ \E fs \in FileLists : HandleDrop(fs)
  \/ ClearFiles
  \/ HandleExtract
  \/ \E i \in InFlight("/process-files") : \E o \in ExtractOutcomes(net[i].req) : ExtractDone(i, o)
  \/ \E k \in 1..Len(conv.results) : \E f \in Formats : HandleDownload(k, f)
  \/ \E i \in InFlight("/download") : \E o \in DownloadOutcomes : DownloadDone(i, o)

NextDash ==
  \/ \E s \in Inputs : SetInput(s)
  \/ HandleSubmit
  \/ \E i \in InFlight("/api/dashboard/chat") : \E o \in ChatOutcomes : ChatDone(i, o)
  \/ HandleGetInsights
  \/ \E i \in InFlight("/api/dashboard/insights") : \E o \in InsightsOutcomes : GetInsightsDone(i, o)
  \/ CloseInsights
  \/ \E r \in BOOLEAN : HandleDownloadPDF(r)
  \/ GoToUpload
  \/ DashBack

NextCleaner ==
  \/ \E f \in {None, Some(FileA), Some(FileB)} : HandleFileUploadCleaner(f)
  \/ \E ep \in CleanerEndpoints : FetchData(ep)
  \/ \E i \in 1..Len(net) : \E o \in CleanerOutcomes : FetchDataDone(i, o)

NextInsgen ==
  \/ \E f \in {None, Some(ImageFile), Some(PdfFile)} : HandleFileChange(f)
  \/ \E i \in InFlight("FileReader") : ReaderLoadEnd(i)
  \/ ClearFile
  \/ GenerateInsights
  \/ \E i \in InFlight("/api/insights/generate") : \E o \in GenerateOutcomes : GenerateDone(i, o)
  \/ InsgenBack

NextAuth ==
  \/ HandleLogin
  \/ \E i \in InFlight("signInWithEmailAndPassword") : \E c \in ProviderOutcomes : LoginDone(i, c)
  \/ LoginToSignup
  \/ HandleSignup
  \/ \E i \in InFlight("createUserWithEmailAndPassword") : \E c \in ProviderOutcomes : SignupCreated(i, c)
  \/ \E i \in InFlight("updateProfile") : \E c \in ProviderOutcomes : SignupDone(i, c)
  \/ SignupToLogin

\* The FileResults of every combination of the three flags
FlagResults ==
  { [success |-> su, has_structured_data |-> st, has_text_content |-> tx,
     error |-> IF su THEN None ELSE Some(<<"corrupt file">>),
     preview |-> pv, dataframe |-> None] :
      su \in BOOLEAN, st \in BOOLEAN, tx \in BOOLEAN,
      pv \in {None, Some(<<>>), Some(Rows1), Some(Rows2)} }

\* Result lists with up to two entries, the keys distinct
FlagResultSets ==
  { <<>> } \cup { <<[name |-> FileA, result |-> r]>> : r \in FlagResults }
  \cup { <<[name |-> FileB, result |-> r1], [name |-> FileA, result |-> r2]>> :
           r1 \in FlagResults, r2 \in FlagResults }

\* The conversion page holding some result list that is not rendered yet
InitRender ==
  \E rs \in FlagResultSets :
    /\ page = "conv"
    /\ nav = None
    /\ net = <<>>
    /\ conv = [ConvInit EXCEPT !.files = <<FileB, FileA>>, !.results = rs]
    /\ view = <<>>
    /\ session_id = None
    /\ dash = DashInit(NoLocation)
    /\ input = <<>>
    /\ cleaner = CleanerInit
    /\ insgen = InsgenInit
    /\ auth = AuthInit
    /\ ev = Ev("setResults", <<>>, TRUE, FALSE, "none", <<>>)
    /\ escaped = FALSE
    /\ resultsFor = <<FileB, FileA>>
    /\ clearedSince = FALSE
    /\ doc = DocInit

\* The render that follows a state update
Render ==
  /\ page = "conv" /\ nav = None
  /\ view' = RenderResults(conv.results)
  /\ ev' = Ev("render", <<>>, FALSE, FALSE, "none", <<>>)
  /\ UNCHANGED <<page, nav, net, conv, notConv, escaped, resultsFor, clearedSince, doc>>

SpecRender == InitRender /\ [][Render]_vars

FileTar == <<"t", ".", "tar", ".", "gz">>
FileDot == <<".", "env">>

\* Result lists whose entries differ in the name and in the rows they hold
ExportResultSets ==
  { <<[name |-> n, result |-> r]>> :
      n \in {FileA, FileB, FileTar, FileDot}, r \in {FRStructured, FRFull, FRNoRows, FRFailed} }
  \cup { <<[name |-> FileB, result |-> r1], [name |-> FileA, result |-> r2]>> :
           r1 \in {FRStructured, FRFull, FRFailed}, r2 \in {FRStructured, FRFull, FRFailed} }

\* The conversion page showing the cards of some result list
InitExport ==
  \E rs \in ExportResultSets :
    /\ page = "conv"
    /\ nav = None
    /\ net = <<>>
    /\ conv = [ConvInit EXCEPT !.files = [k \in 1..Len(rs) |-> rs[k].name], !.results = rs]
    /\ view = RenderResults(rs)
    /\ session_id = None
    /\ dash = DashInit(NoLocation)
    /\ input = <<>>
    /\ cleaner = CleanerInit
    /\ insgen = InsgenInit
    /\ auth = AuthInit
    /\ ev = Ev("handleExtract.done", Ok200(rs), TRUE, FALSE, "none", <<>>)
    /\ escaped = FALSE
    /\ resultsFor = [k \in 1..Len(rs) |-> rs[k].name]
    /\ clearedSince = FALSE
    /\ doc = DocInit

NextExport ==
  \/ \E k \in 1..Len(conv.results) : \E f \in Formats : HandleDownload(k, f)
  \/ \E i \in InFlight("/download") : \E o \in DownloadOutcomes : DownloadDone(i, o)

SpecExport == InitExport /\ [][NextExport]_vars

NextHome == \E path \in HomeLinks : HomeLink(path)

Next == NextConv \/ NextDash \/ NextCleaner \/ NextInsgen \/ NextAuth \/ NextHome

Spec == Init /\ [][Next]_vars
SpecConv == InitConv /\ [][NextConv]_vars
SpecDash == InitDash /\ [][NextDash]_vars
SpecCleaner == InitCleaner /\ [][NextCleaner]_vars
SpecInsgen == InitInsgen /\ [][NextInsgen]_vars
SpecAuth == InitAuth /\ [][NextAuth]_vars

\* Every backend call of a mounted page completes: its fetch settles (with
\* a response or a network failure) and the rest of the handler runs.
BackendCompletes ==
  /\ WF_vars(\E i \in InFlight("/process-files") : \E o \in ExtractOutcomes(net[i].req) : ExtractDone(i, o))
  /\ WF_vars(\E i \in InFlight("/api/dashboard/chat") : \E o \in ChatOutcomes : ChatDone(i, o))
  /\ WF_vars(\E i \in InFlight("/api/dashboard/insights") : \E o \in InsightsOutcomes : GetInsightsDone(i, o))
  /\ WF_vars(\E i \in 1..Len(net) : \E o \in CleanerOutcomes : FetchDataDone(i, o))
  /\ WF_vars(\E i \in InFlight("/api/insights/generate") : \E o \in GenerateOutcomes : GenerateDone(i, o))

SpecLive == Init /\ [][Next]_vars /\ BackendCompletes

---------------------------------------------------------------------------
(* Properties *)

ChatInFlight == InFlight("/api/dashboard/chat")

\* C1: on the conversion page the results shown belong to the selected
\* files: a non-empty result list was produced by an extraction request
\* issued for the file list that is selected now, and after Clear Files the
\* results and the error stay empty until a new extraction is started, even
\* when the response of an earlier request arrives late.
C1_ResultsOfSelectedFiles ==
  page = "conv" =>
    /\ (conv.results # <<>> => resultsFor = conv.files)
    /\ (clearedSince => conv.results = <<>> /\ conv.error = None)

\* C2: a submit made with blank input (after trimming) or while a chat
\* request is pending is a no-op, it issues no request and leaves the
\* transcript as it is, and at most one chat request is in flight.
C2_SubmitGate ==
  /\ [](Cardinality(ChatInFlight) <= 1)
  /\ [][ (ev'.h = "handleSubmit" /\ (Trim(input) = <<>> \/ ChatInFlight # {}))
            => (net' = net /\ dash'.messages = dash.messages) ]_vars

\* C2, its case: a submit of non-blank text was turned down while a chat
\* request was pending.
C2_Witness ==
  /\ ev.h = "handleSubmit" /\ ~ev.upd
  /\ Trim(ev.arg) # <<>>
  /\ ChatInFlight # {}
  /\ Len(dash.messages) = 1

\* C3: over a chat turn whose response has success true the transcript
\* gains exactly two entries, the user entry with the text that was sent and
\* then the assistant entry with the response's reply, and the chart list
\* becomes the response's chart list.  The send step appends the user entry
\* and puts the same text in the request, the step that handles the response
\* appends the reply and replaces the charts, and no other step touches the
\* transcript or the charts.
C3_SuccessfulTurn ==
  [][ /\ (ev'.h = "handleSubmit" /\ ev'.upd) =>
           /\ dash'.messages = Append(dash.messages, [role |-> "user", content |-> input])
           /\ dash'.charts = dash.charts
           /\ ChatInFlight = {}
           /\ net' = Append(net, [ep |-> "/api/dashboard/chat",
                                  req |-> [session_id |-> session_id, message |-> input]])
      /\ (ev'.h = "handleSendMessage.done" /\ ResOk(ev'.arg) /\ IsSome(ev'.arg.data)
             /\ Get(ev'.arg.data).success) =>
           LET sent == net[CHOOSE i \in ChatInFlight : TRUE].req.message
               data == Get(ev'.arg.data)
           IN /\ Len(dash.messages) >= 1
              /\ dash.messages[Len(dash.messages)] = [role |-> "user", content |-> sent]
              /\ dash'.messages = Append(dash.messages, [role |-> "assistant", content |-> data.reply])
              /\ dash'.charts = data.charts
      /\ (ev'.h \notin {"handleSubmit", "handleSendMessage.done"}) =>
           /\ dash'.messages = dash.messages
           /\ dash'.charts = dash.charts
    ]_vars

\* C3, its case: the second turn of a conversation ended with success, four
\* entries in the transcript and the charts of the response on the page.
C3_Witness ==
  /\ ev.h = "handleSendMessage.done"
  /\ IsSome(ev.arg.data) /\ Get(ev.arg.data).success
  /\ Len(dash.messages) = 4
  /\ dash.messages[3].role = "user" /\ dash.messages[4] = BotMsg(Get(ev.arg.data).reply)
  /\ dash.charts = Get(ev.arg.data).charts /\ dash.charts # "C0"

\* C4: a chat turn that ends with a response whose success is not true or
\* with a failure of the call appends exactly one assistant entry with a fixed
\* text, "couldn't process" for success false and "network error" for a
\* network failure, leaves the charts and the KPIs unchanged and throws
\* nothing.
C4_FailedTurn ==
  [][ (ev'.h = "handleSendMessage.done"
         /\ ~(ResOk(ev'.arg) /\ IsSome(ev'.arg.data) /\ Get(ev'.arg.data).success)) =>
        /\ Len(dash.messages) >= 1
        /\ dash.messages[Len(dash.messages)].role = "user"
        /\ \E text \in {CouldNotProcess, NetworkErrorText} :
             /\ dash'.messages = Append(dash.messages, [role |-> "assistant", content |-> text])
             /\ ev'.arg.kind = "neterr" => text = NetworkErrorText
             /\ IsSome(ev'.arg.data) => text = CouldNotProcess
        /\ dash'.charts = dash.charts
        /\ dash'.kpis = dash.kpis
        /\ ~dash'.loading
        /\ ~escaped'
    ]_vars

\* C4, its case: a turn ended with a network failure and the transcript
\* holds the user entry and the network-error entry.
C4_Witness ==
  /\ ev.h = "handleSendMessage.done"
  /\ ev.arg.kind = "neterr"
  /\ Len(dash.messages) = 2
  /\ dash.messages[2] = BotMsg(NetworkErrorText)
  /\ dash.charts = "C0"

\* C5: a rendered card has exactly one body section, chosen in strict
\* priority: the error when the entry failed (with no data, text or export
\* section), else the table with its downloads when it has structured data,
\* else the text when it has text content, else the nothing-extracted
\* message.
C5_OneSectionByPriority ==
  ev.h = "render" =>
    \A k \in 1..Len(view) :
      LET r == conv.results[k].result
          c == view[k]
      IN /\ Len(c.body) = 1
         /\ c.body[1] = IF ~r.success THEN "error"
                        ELSE IF r.has_structured_data THEN "structured"
                        ELSE IF r.has_text_content THEN "text"
                        ELSE "none"
         /\ c.export = (c.body = <<"structured">>)
         /\ ~r.success => c.errorText = r.error

\* C5, its case: an entry with both structured data and text content was
\* rendered as the table alone.
C5_Witness ==
  /\ ev.h = "render"
  /\ \E k \in 1..Len(view) :
       /\ conv.results[k].result.success
       /\ conv.results[k].result.has_structured_data
       /\ conv.results[k].result.has_text_content
       /\ view[k].body = <<"structured">>

\* C6: the result list renders one card per filename of the mapping, and
\* each card is the card of its own FileResult, whatever the other entries
\* are: a failed entry changes no other card.
C6_CardPerFile ==
  ev.h = "render" =>
    /\ Len(view) = Len(conv.results)
    /\ \A k \in 1..Len(conv.results) :
         /\ Cardinality({ j \in 1..Len(view) : view[j].key = conv.results[k].name }) = 1
         /\ view[k] = RenderCard(conv.results[k].name, conv.results[k].result)

\* C6, its case: two files, the first failed and the second with structured
\* data, rendered as one error card and one table card.
C6_Witness ==
  /\ ev.h = "render"
  /\ Len(view) = 2
  /\ view[1].key = FileB /\ view[1].body = <<"error">> /\ ~view[1].export
  /\ view[2].key = FileA /\ view[2].body = <<"structured">> /\ view[2].export

CleanerInFlight == { i \in 1..Len(net) : net[i].ep \in CleanerEndpoints }

\* C7: at most one extraction request, at most one analyze, clean or
\* clean-and-analyze request and at most one insight request of the
\* dashboard and of the insight page is in flight, and while one is in
\* flight the control that starts it is disabled, whatever happened to the
\* file selection in between.
C7_OneRequestPerControl ==
  /\ Cardinality(InFlight("/process-files")) <= 1
  /\ (InFlight("/process-files") # {} => ExtractDisabled /\ conv.loading)
  /\ Cardinality(CleanerInFlight) <= 1
  /\ (CleanerInFlight # {} => CleanerDisabled)
  /\ Cardinality(InFlight("/api/dashboard/insights")) <= 1
  /\ (InFlight("/api/dashboard/insights") # {} => GetInsightsDisabled)
  /\ Cardinality(InFlight("/api/insights/generate")) <= 1
  /\ (InFlight("/api/insights/generate") # {} => GenerateDisabled)

\* C7, its case: an extraction is in flight for a file list that is not the
\* selected one any more, files are selected and the button is disabled.
C7_Witness ==
  /\ page = "conv"
  /\ \E i \in InFlight("/process-files") : net[i].req # conv.files
  /\ Len(conv.files) > 0
  /\ ExtractDisabled

\* The events that end an asynchronous handler
HandlerEnds ==
  { "handleSendMessage.done", "handleGetInsights.done", "handleDownloadPDF",
    "handleExtract.done", "handleDownload.done", "fetchData.done",
    "generateInsights.done", "handleLogin.done", "handleSignup.done" }

\* C8 as stated: every asynchronous handler ends, for every outcome, in a
\* state update the view renders or in a console log, and no rejection
\* escapes a handler.
C8_UpdateOrLog ==
  /\ ~escaped
  /\ ev.h \in HandlerEnds => (ev.upd \/ ev.log)

\* C8: no rejection escapes an asynchronous handler, and every one ends in
\* a state update the view renders, in a console log or, when a tabular
\* download, a PDF export, a login or a signup succeeded, in the download,
\* the saved file or the navigation it was started for.
C8_HandlerEnds ==
  /\ ~escaped
  /\ ev.h \in HandlerEnds =>
       \/ ev.upd
       \/ ev.log
       \/ /\ ev.h \in {"handleDownload.done", "handleDownloadPDF", "handleLogin.done", "handleSignup.done"}
          /\ ev.eff \in {"download", "save", "navigate"}

\* C8, its case: the PDF export failed and ended in a console log alone.
C8_Witness ==
  /\ ev.h = "handleDownloadPDF"
  /\ ev.arg = <<"failed">>
  /\ ev.log /\ ~ev.upd /\ ev.eff = "none"
  /\ ~escaped

\* The handlers that turn a non-2xx response into an error for the user
FetchEnds ==
  { "handleExtract.done", "handleDownload.done", "fetchData.done",
    "generateInsights.done", "handleGetInsights.done" }

\* The error the user sees when a handler has ended: the error text of the
\* page or the text of the alert
ShownError ==
  CASE ev.h \in {"handleExtract.done", "handleDownload.done"} -> conv.error
    [] ev.h = "fetchData.done" -> cleaner.error
    [] ev.h = "generateInsights.done" -> insgen.error
    [] ev.h = "handleGetInsights.done" -> Some(ev.out)

EndsWith(s, t) == Len(s) >= Len(t) /\ SubSeq(s, Len(s) - Len(t) + 1, Len(s)) = t

\* A handler has just ended on a non-2xx response
NonOkHandled == ev.h \in FetchEnds /\ ev.arg.kind = "http" /\ ~ResOk(ev.arg)

\* C9: for every non-2xx response the body is read as JSON first and as
\* plain text when it is not JSON, so that the user sees the backend's
\* detail or, failing that, the text of the body.
C9_DetailOrBodyText ==
  NonOkHandled =>
    /\ IsSome(ShownError)
    /\ (ev.arg.body.json = "obj" /\ IsSome(ev.arg.body.detail)) =>
         EndsWith(Get(ShownError), Get(ev.arg.body.detail))
    /\ ev.arg.body.json = "bad" => EndsWith(Get(ShownError), ev.arg.body.text)

InsightDetailHandled ==
  /\ ev.h \in {"handleGetInsights.done", "generateInsights.done"}
  /\ NonOkHandled
  /\ ev.arg.body.json = "obj" /\ IsSome(ev.arg.body.detail)

\* C11 as stated: when an insight request, on the dashboard or on the
\* insight page, is answered non-2xx with a detail d, the text the user
\* sees is exactly d with nothing added.
C11_ExactDetail ==
  InsightDetailHandled => ShownError = ev.arg.body.detail

\* C11: when an insight request is answered non-2xx with a detail d, the
\* insight page shows exactly d as its error, and the dashboard shows d in
\* an alert after the label "Insight Error: "; neither shows a generic
\* message.
C11_DetailShown ==
  InsightDetailHandled =>
    IF ev.h = "generateInsights.done"
      THEN insgen.error = ev.arg.body.detail
      ELSE ev.eff = "alert" /\ ev.out = <<"Insight Error: ">> \o Get(ev.arg.body.detail)

\* C11, its case: the insight page was answered 500 with the detail
\* "model timeout" and shows exactly that.
C11_Witness ==
  /\ ev.h = "generateInsights.done"
  /\ ev.arg.kind = "http" /\ ev.arg.status = 500
  /\ ev.arg.body.detail = Some(<<"model timeout">>)
  /\ insgen.error = Some(<<"model timeout">>)
  /\ ~insgen.loading

\* C12: when a download is answered non-2xx, the error shown carries the
\* backend's detail if the body has one and else the generic
\* "Download error: <status>"; the results, the file selection and the
\* pending flag are unchanged and no file is saved.
C12_DownloadError ==
  [][ (ev'.h = "handleDownload.done" /\ ev'.arg.kind = "http" /\ ~ResOk(ev'.arg)) =>
        /\ IsSome(conv'.error)
        /\ EndsWith(Get(conv'.error),
                    IF IsSome(ev'.arg.body.detail) THEN Get(ev'.arg.body.detail)
                    ELSE <<"Download error: ", ToString(ev'.arg.status)>>)
        /\ conv'.results = conv.results
        /\ conv'.files = conv.files
        /\ conv'.loading = conv.loading
        /\ ev'.eff # "download"
    ]_vars

\* C13: the dashboard's KPI list is the list the page was opened with,
\* after any sequence of chat turns, insight requests and PDF exports and
\* whatever the responses hold.
C13_KpisAsOpened ==
  page = "dash" =>
    \E loc \in LocationStates :
      /\ loc.session_id = session_id
      /\ dash.kpis = (IF IsSome(loc.kpis) THEN Get(loc.kpis) ELSE "[]")

\* C13, its case: a chat turn replaced the charts and insights arrived, and
\* the KPI list is still the one of the location state.
C13_Witness ==
  /\ page = "dash"
  /\ dash.charts = "C1"
  /\ IsSome(dash.insights)
  /\ Len(dash.messages) >= 2
  /\ dash.kpis = "K0"

IsPrefix(s, t) == Len(s) <= Len(t) /\ SubSeq(t, 1, Len(s)) = s

\* C14: the chat transcript is append-only: in every step of the dashboard
\* the transcript before the step is a prefix of the transcript after it.
C14_AppendOnly ==
  [][ IsPrefix(dash.messages, dash'.messages) ]_vars

\* C14, its case: a failed turn and then a successful one, the entries of
\* the first still in place.
C14_Witness ==
  /\ Len(dash.messages) = 4
  /\ dash.messages[1].role = "user"
  /\ dash.messages[2] = BotMsg(NetworkErrorText)
  /\ dash.messages[3].role = "user"
  /\ dash.messages[4] = BotMsg(<<"Done">>)

\* C15: clearFiles is idempotent: from every state of the conversion page,
\* clearing twice gives the state that clearing once gives, with no file,
\* no result and no error; the state clearFiles has left is one a second
\* clearFiles would not change.
C15_ClearIdempotent ==
  page = "conv" =>
    LET once == ClearedConv(conv)
    IN /\ ClearedConv(once) = once
       /\ once.files = <<>> /\ once.results = <<>> /\ once.error = None
       /\ ev.h = "clearFiles" => conv = once

\* C15, its case: Clear Files was clicked with results on display while a
\* download was pending, and left the empty state.
C15_Witness ==
  /\ ev.h = "clearFiles"
  /\ resultsFor # <<>>
  /\ InFlight("/download") # {}
  /\ conv.files = <<>> /\ conv.results = <<>> /\ conv.error = None

\* C16: for every file list and every prior state of the conversion page,
\* the picker and the drop zone give the same state: the file set is the
\* list as delivered, in order and unfiltered, the results are empty and
\* the error is cleared.
C16_PickerEqualsDrop ==
  /\ [](page = "conv" => \A fs \in FileLists : Selected(conv, fs) = Dropped(conv, fs))
  /\ [][ (ev'.h \in {"handleFileUpload", "handleDrop"}) =>
            conv' = [files |-> ev'.arg, results |-> <<>>, loading |-> conv.loading, error |-> None]
       ]_vars

\* C16, its case: two files, one without an extension, were dropped while
\* another selection was being extracted.
C16_Witness ==
  /\ ev.h = "handleDrop"
  /\ ev.arg = <<FileB, FileA>>
  /\ conv.files = <<FileB, FileA>> /\ conv.results = <<>> /\ conv.error = None
  /\ \E i \in InFlight("/process-files") : net[i].req = <<FileA>>

\* C17: in the card of a FileResult with success and structured data, the
\* header of the preview table is the key sequence of the first preview row,
\* same keys in the same order; when the preview is empty or absent there is
\* no table, while the counts with the column list and the download buttons
\* are there all the same.
C17_HeaderOfFirstRow ==
  ev.h = "render" =>
    \A k \in 1..Len(view) :
      LET r == conv.results[k].result
          c == view[k]
      IN (r.success /\ r.has_structured_data) =>
           /\ c.counts /\ c.export
           /\ IF IsSome(r.preview) /\ Len(Get(r.preview)) > 0
                THEN /\ IsSome(c.table)
                     /\ LET first == Get(r.preview)[1]
                        IN Get(c.table).header = [i \in 1..Len(first) |-> first[i][1]]
                ELSE c.table = None

\* C17, its case: one card with a table headed by the keys of the first of
\* two rows that differ in their keys, and one card of an empty preview with
\* no table and the download buttons.
C17_Witness ==
  /\ ev.h = "render"
  /\ Len(view) = 2
  /\ conv.results[1].result.preview = Some(Rows2)
  /\ IsSome(view[1].table) /\ Get(view[1].table).header = <<"a", "b">>
  /\ conv.results[2].result.preview = Some(<<>>)
  /\ view[2].table = None /\ view[2].counts /\ view[2].export

\* b is the name with its extension stripped: the part before the last
\* "." when something other than "." and "/" follows it, else the name
IsBaseOf(b, name) ==
  LET cuts == { i \in 1..(Len(name) - 1) :
                  name[i] = "." /\ \A j \in (i + 1)..Len(name) : name[j] # "." /\ name[j] # "/" }
  IN IF cuts = {} THEN b = name ELSE \E i \in cuts : b = SubSeq(name, 1, i - 1)

\* The structured entries of the result list on display
StructuredEntries ==
  { k \in 1..Len(conv.results) :
      conv.results[k].result.success /\ conv.results[k].result.has_structured_data }

\* C18 as stated: a download button sends the full dataframe when the
\* result has one and the preview rows when it has not, in a request body
\* {dataframe, format, filename} whose filename is the base name.
C18_BodyWithBaseName ==
  [][ ev'.h = "handleDownload" =>
        \E k \in StructuredEntries :
          LET r == conv.results[k].result
          IN /\ ev'.arg.dataframe = (IF IsSome(r.dataframe) THEN r.dataframe ELSE r.preview)
             /\ ev'.arg.format \in {"csv", "excel"}
             /\ IsBaseOf(ev'.arg.filename, conv.results[k].name)
             /\ net' = Append(net, [ep |-> "/download", req |-> ev'.arg])
    ]_vars

\* C18: a download button sends the full dataframe when the result has one
\* and the preview rows when it has not, in a request body {dataframe,
\* format, filename} whose format is csv or excel and whose filename is the
\* base name followed by "_extracted".
C18_ExportBody ==
  [][ ev'.h = "handleDownload" =>
        \E k \in StructuredEntries :
          LET r == conv.results[k].result
          IN /\ ev'.arg.dataframe = (IF IsSome(r.dataframe) THEN r.dataframe ELSE r.preview)
             /\ ev'.arg.format \in {"csv", "excel"}
             /\ \E b \in {SubSeq(conv.results[k].name, 1, n) : n \in 0..Len(conv.results[k].name)} :
                  /\ IsBaseOf(b, conv.results[k].name)
                  /\ ev'.arg.filename = b \o <<"_extracted">>
             /\ DOMAIN ev'.arg = {"dataframe", "format", "filename"}
             /\ net' = Append(net, [ep |-> "/download", req |-> ev'.arg])
    ]_vars

\* C18, its case: the Excel button of a result with a full dataframe sent
\* the dataframe, not the shorter preview.
C18_Witness ==
  /\ ev.h = "handleDownload"
  /\ ev.arg.format = "excel"
  /\ ev.arg.dataframe = Some(RowsFull)
  /\ ev.arg.filename = <<"a", "_extracted">>
  /\ \E i \in InFlight("/download") : net[i].req = ev.arg

\* C19: the file a download saves is named <base>_extracted.csv for the
\* format csv and <base>_extracted.xlsx for excel, <base> being the original
\* filename with its extension stripped, and a name without an extension
\* being its own base: the request carries <base>_extracted and the saved
\* name is the request's name with the extension of its format.
C19_DownloadName ==
  [][ /\ ev'.h = "handleDownload" =>
           \E k \in StructuredEntries :
             \E b \in {SubSeq(conv.results[k].name, 1, n) : n \in 0..Len(conv.results[k].name)} :
               /\ IsBaseOf(b, conv.results[k].name)
               /\ ev'.arg.filename = b \o <<"_extracted">>
      /\ (ev'.h = "handleDownload.done" /\ ResOk(ev'.arg)) =>
           /\ ev'.eff = "download"
           /\ \E i \in InFlight("/download") :
                /\ net' = RemoveAt(net, i)
                /\ ev'.out = net[i].req.filename
                               \o (IF net[i].req.format = "csv" THEN <<".csv">> ELSE <<".xlsx">>)
    ]_vars

\* C19, its case: t.tar.gz was saved as t.tar_extracted.xlsx.
C19_Witness ==
  /\ ev.h = "handleDownload.done"
  /\ ev.eff = "download"
  /\ conv.results[1].name = FileTar
  /\ ev.out = <<"t", ".", "tar", "_extracted", ".xlsx">>

\* C20: after every successful extraction response the result list is
\* exactly the response's mapping: no entry of an earlier response is kept
\* and nothing is merged.
C20_ResultsReplaced ==
  [][ (ev'.h = "handleExtract.done" /\ ResOk(ev'.arg) /\ IsSome(ev'.arg.data)) =>
        conv'.results = Get(ev'.arg.data)
    ]_vars

\* C20, its case: a second extraction answered while a download of the
\* first one's table was still pending, and its response, a failed entry,
\* is all the result list holds.
C20_Witness ==
  /\ ev.h = "handleExtract.done"
  /\ ResOk(ev.arg) /\ IsSome(ev.arg.data)
  /\ conv.results = Get(ev.arg.data)
  /\ Len(conv.results) = 1 /\ conv.results[1].result = FRFailed
  /\ InFlight("/download") # {}

\* C21: a successful insight request replaces the insight set with the
\* response's insights, and insight state and chat state are independent:
\* an insight request changes neither the transcript nor the charts, and a
\* chat turn changes neither the insight set nor whether the panel is shown.
C21_InsightsReplacedApart ==
  [][ /\ (ev'.h = "handleGetInsights.done" /\ ResOk(ev'.arg) /\ IsSome(ev'.arg.data)
             /\ Get(ev'.arg.data).success) =>
           /\ dash'.insights = Some(Get(ev'.arg.data).insights)
           /\ dash'.showInsights
      /\ (ev'.h \in {"handleGetInsights", "handleGetInsights.done"}) =>
           /\ dash'.messages = dash.messages
           /\ dash'.charts = dash.charts
           /\ dash'.loading = dash.loading
      /\ (ev'.h \in {"handleSubmit", "handleSendMessage.done"}) =>
           /\ dash'.insights = dash.insights
           /\ dash'.showInsights = dash.showInsights
           /\ dash'.loadingInsights = dash.loadingInsights
    ]_vars

\* C21, its case: insights arrived while a chat turn was pending, and the
\* transcript holds the user entry alone.
C21_Witness ==
  /\ ev.h = "handleGetInsights.done"
  /\ ResOk(ev.arg) /\ IsSome(ev.arg.data) /\ Get(ev.arg.data).success
  /\ dash.insights = Some("I2") /\ dash.showInsights
  /\ dash.loading /\ Len(dash.messages) = 1
  /\ dash.charts = "C0"

\* The URL and anchor calls that deal with object URLs or trigger a download
UrlCalls(calls) ==
  SelectSeq(calls, LAMBDA c : c.call \in {"createObjectURL", "click", "revokeObjectURL"})

\* C22: every object URL a download handler creates (the tabular export,
\* the cleaned-file download) is revoked in the same handler run, right
\* after the download is triggered: no object URL is alive once a handler
\* has finished, and on the failure path no URL is created.
C22_ObjectUrlsRevoked ==
  /\ doc = {}
  /\ (ev.h \in {"handleDownload.done", "fetchData.done"}) =>
       IF ev.eff = "download"
         THEN /\ Len(UrlCalls(ev.calls)) = 3
              /\ UrlCalls(ev.calls)[1].call = "createObjectURL"
              /\ UrlCalls(ev.calls)[2].call = "click"
              /\ UrlCalls(ev.calls)[3].call = "revokeObjectURL"
              /\ \A k \in 1..3 : UrlCalls(ev.calls)[k].url = UrlCalls(ev.calls)[1].url
              /\ UrlCalls(ev.calls)[2].name = ev.out
         ELSE ev.calls = <<>>

\* C22, its case: an export was saved through an anchor on an object URL.
C22_Witness ==
  /\ ev.h = "handleDownload.done" /\ ev.eff = "download"
  /\ Len(ev.calls) = 5 /\ ev.calls[3].call = "click"

\* C23: the PDF export issues no backend request, names the file
\* dashboard-report-<first 8 characters of the session id>.pdf, and in both
\* outcomes leaves charts, KPIs, transcript, insights and both pending flags
\* unchanged; on failure no file is saved and no error is shown.
C23_PdfExportApart ==
  [][ (ev'.h = "handleDownloadPDF") =>
        /\ net' = net
        /\ dash' = dash
        /\ session_id' = session_id /\ input' = input /\ nav' = nav
        /\ (ev'.arg = <<"rasterized">>) =>
              /\ ev'.eff = "save"
              /\ ev'.out = <<"dashboard-report-", "s", "e", "s", "s", "i", "o", "n", "-", ".pdf">>
        /\ (ev'.arg = <<"failed">>) =>
              /\ ev'.eff = "none" /\ ev'.out = <<>>
              /\ escaped' = escaped
    ]_vars

\* C23, its case: the report was saved while a chat turn and an insight
\* request were both pending.
C23_Witness ==
  /\ ev.h = "handleDownloadPDF" /\ ev.eff = "save"
  /\ dash.loading /\ dash.loadingInsights
  /\ Len(net) = 2 /\ Len(dash.messages) = 1

\* The request a completion step answers: the one the step takes out of net
Answered(i) == i \in 1..Len(net) /\ net' = RemoveAt(net, i)

\* C24: on the data-cleaning page and on the insight page the analysis,
\* the insight set and the error on display belong to the file selected
\* now: the response of a request made for another selection populates
\* none of them.
C24_DisplayOfSelectedFile ==
  [][ /\ (ev'.h = "fetchData.done") =>
           \E i \in 1..Len(net) :
             /\ Answered(i)
             /\ (net[i].req # cleaner.file) =>
                   /\ cleaner'.analysis = cleaner.analysis
                   /\ cleaner'.error = cleaner.error
      /\ (ev'.h = "generateInsights.done") =>
           \E i \in 1..Len(net) :
             /\ Answered(i)
             /\ (net[i].req # insgen.file) =>
                   /\ insgen'.insights = insgen.insights
                   /\ insgen'.error = insgen.error
    ]_vars

\* C25: the transcript alternates user, assistant, user, ... starting with
\* a user entry; a user entry without its assistant entry exists only as
\* the last entry and exactly while a chat request is pending; the length
\* is even whenever no chat request is pending.
C25_TranscriptAlternates ==
  /\ \A k \in 1..Len(dash.messages) :
        dash.messages[k].role = (IF k % 2 = 1 THEN "user" ELSE "assistant")
  /\ (Len(dash.messages) % 2 = 1) <=> dash.loading
  /\ (page = "dash" /\ nav = None) => (dash.loading <=> ChatInFlight # {})
  /\ Cardinality(ChatInFlight) <= 1

\* C25, its case: a second turn is pending after a first turn that failed.
C25_Witness ==
  /\ Len(dash.messages) = 3 /\ dash.loading
  /\ dash.messages[2].content = NetworkErrorText
  /\ ChatInFlight # {}

\* C26: every request a component starts (chat, dashboard insights,
\* extraction, analyze/clean, standalone insights) is eventually followed by
\* its pending flag being false, whatever the outcome, provided the backend
\* call completes: the handler segment that follows the settled fetch ends
\* with the flag false, and no flag stays true for ever on a page that is
\* not left (which says the same as: flag true leads to flag false or page
\* left).
C26_PendingEnds ==
  /\ [][ /\ (ev'.h = "handleExtract.done") => ~conv'.loading
         /\ (ev'.h = "handleSendMessage.done") => ~dash'.loading
         /\ (ev'.h = "handleGetInsights.done") => ~dash'.loadingInsights
         /\ (ev'.h = "fetchData.done") => ~cleaner'.loading
         /\ (ev'.h = "generateInsights.done") => ~insgen'.loading ]_vars
  /\ []<>(~conv.loading \/ nav # None)
  /\ []<>(~dash.loading \/ nav # None)
  /\ []<>(~dash.loadingInsights \/ nav # None)
  /\ []<>(~cleaner.loading \/ nav # None)
  /\ []<>(~insgen.loading \/ nav # None)

\* C26, its case: an insight request that was answered with an error body
\* nobody could parse ended, and the flag is false.
C26_Witness ==
  /\ ev.h = "handleGetInsights.done"
  /\ ~ResOk(ev.arg)
  /\ ~dash.loadingInsights
  /\ dash.loading

\* The chat and insight requests in flight
DashRequests == { i \in 1..Len(net) : net[i].ep \in {"/api/dashboard/chat", "/api/dashboard/insights"} }

\* The session id a request carries
SessionOf(r) == IF r.ep = "/api/dashboard/chat" THEN r.req.session_id ELSE r.req

\* C27: the dashboard issues no chat or insight request and names no PDF
\* with a missing session id: without one only the No Active Session view
\* with its Go to Upload button can be reached, and every chat and insight
\* request carries the session id the page was opened with.
C27_SessionIdPresent ==
  /\ [](\A i \in DashRequests :
          /\ IsSome(SessionOf(net[i])) /\ Get(SessionOf(net[i])) # <<>>
          /\ SessionOf(net[i]) = session_id)
  /\ []((ev.h = "handleDownloadPDF") => (IsSome(session_id) /\ Get(session_id) # <<>>))
  /\ [][ /\ session_id' = session_id
         /\ (page = "dash" /\ (~IsSome(session_id) \/ session_id = Some(<<>>))) =>
              /\ ev'.h = "goToUpload"
              /\ ev'.eff = "navigate" /\ ev'.out = <<"/data-cleaning">>
              /\ net' = <<>> /\ dash' = dash ]_vars

\* C27, its case: a chat request and an insight request are in flight,
\* both with the session id of the page.
C27_Witness ==
  /\ page = "dash" /\ session_id = Some(Sid)
  /\ Len(net) = 2
  /\ net[1].ep = "/api/dashboard/insights" /\ net[1].req = Some(Sid)
  /\ net[2].ep = "/api/dashboard/chat" /\ net[2].req.session_id = Some(Sid)

\* row[h]: the value of the row's property h, None when the row has none
ValueAt(row, h) ==
  IF \E i \in 1..Len(row) : row[i][1] = h
    THEN row[CHOOSE i \in 1..Len(row) : row[i][1] = h][2]
    ELSE None

\* C28: in the preview table every body row has exactly one cell per header
\* column, and the cell under header h shows that row's value for column h,
\* N/A when it is null or missing, also for rows whose keys differ from the
\* first row's in set or in order.
C28_CellUnderHeader ==
  ev.h = "render" =>
    \A k \in 1..Len(view) :
      IsSome(view[k].table) =>
        LET t == Get(view[k].table)
            rows == Get(conv.results[k].result.preview)
        IN /\ Len(t.rows) = Len(rows)
           /\ \A i \in 1..Len(rows) :
                /\ Len(t.rows[i]) = Len(t.header)
                /\ \A j \in 1..Len(t.header) :
                     t.rows[i][j] = (IF IsSome(ValueAt(rows[i], t.header[j]))
                                       THEN Get(ValueAt(rows[i], t.header[j]))
                                       ELSE "N/A")

\* C30: every navigation target the pages use is a route registered in the
\* router: no navigation from a page ends on a path with no matching page.
C30_TargetsRegistered ==
  IsSome(nav) => IsSome(MatchRoute(Get(nav)))

====
